---- MODULE Spec2Model ----
(***************************************************************************)
(* The blog's manifest pipeline: the two manifest generator scripts        *)
(* (the sorting one and scripts/generate-manifest.cjs) and the consumers   *)
(* of manifest.json (BlogList, App), and BlogPost, which loads one post.   *)
(*                                                                         *)
(* Text is a TLA+ string.  A JavaScript value is a record tagged by its    *)
(* type.  A time value is counted in days since 1970-01-01 UTC: every Date *)
(* of the model is a YAML date literal, that is midnight UTC, so its       *)
(* getTime() is the day number times 86400000 and the sign of a            *)
(* difference of two of them is the sign of the difference of the days.    *)
(***************************************************************************)
EXTENDS Integers, Sequences, FiniteSets, TLC

VARIABLES
    dir,          \* src/posts: whether it is readable, file name -> content,
                  \* and the order in which it lists its .md files
    manifest,     \* src/posts/manifest.json: Absent, or the JSON document in it
    script,       \* the generator run last: "none", "generate-manifest" (the
                  \* sorting script) or "generate-manifest.cjs"
    exitCode,     \* its exit: "notrun", "0" or "1" (uncaught throw)
    posts,        \* BlogList: the posts state
    listFetch,    \* BlogList: loadLocalPosts: "idle", "pending", "done", "failed"
    listManifest, \* BlogList: the manifest loadLocalPosts parsed, or NoResponse
    recentPosts,  \* App: the recentPosts state
    homeFetch,    \* App: fetchPosts: "idle", "pending", "done", "caught"
    homeManifest, \* App: the manifest fetchPosts parsed, or NoResponse
    tag,          \* BlogList: the :tag route parameter, or Undefined
    slug,         \* BlogPost: the :slug route parameter, or Undefined
    post,         \* BlogPost: the post state, or Null
    postFetches,  \* BlogPost: the slugs of the fetchPost calls in flight, in
                  \* the order of the calls
    postSettled,  \* BlogPost: the fetchPost call that ended last, or NoResponse
    theme,        \* App: the theme state
    rootClassName \* document.documentElement.className

vars ==
    <<dir, manifest, script, exitCode, posts, listFetch, listManifest,
      recentPosts, homeFetch, homeManifest, tag, slug, post, postFetches,
      postSettled, theme, rootClassName>>

\* The state of each component.
listVars == <<posts, listFetch, listManifest, tag>>
homeVars == <<recentPosts, homeFetch, homeManifest>>
postVars == <<slug, post, postFetches, postSettled>>
themeVars == <<theme, rootClassName>>

(***************************************************************************)
(* Bounds.                                                                 *)
(***************************************************************************)
\* The largest number of .md files of a source directory a build is run on.
MaxFiles == 3

\* The largest number of .md files of the directory of the served site.
MaxSitePosts == 2

(***************************************************************************)
(* JavaScript values.                                                      *)
(***************************************************************************)
Null == [t |-> "null"]
Undefined == [t |-> "undefined"]
Str(s) == [t |-> "string", s |-> s]
Num(n) == [t |-> "number", n |-> n]
DateValue(tv) == [t |-> "Date", tv |-> tv]
Arr(a) == [t |-> "Array", a |-> a]

\* ToBoolean: what the || of the scripts tests.
Truthy(v) ==
    CASE v.t \in {"undefined", "null"} -> FALSE
      [] v.t = "string" -> v.s # ""
      [] v.t = "number" -> v.n # 0
      [] OTHER -> TRUE

\* a || b
OrElse(a, b) == IF Truthy(a) THEN a ELSE b

(***************************************************************************)
(* Text helpers.                                                           *)
(***************************************************************************)
Min(a, b) == IF a < b THEN a ELSE b

CharAt(s, i) == SubSeq(s, i, i)

DigitChars == <<"0", "1", "2", "3", "4", "5", "6", "7", "8", "9">>

IsDigit(c) == c \in {"0", "1", "2", "3", "4", "5", "6", "7", "8", "9"}

DigitVal(c) ==
    CASE c = "0" -> 0 [] c = "1" -> 1 [] c = "2" -> 2 [] c = "3" -> 3
      [] c = "4" -> 4 [] c = "5" -> 5 [] c = "6" -> 6 [] c = "7" -> 7
      [] c = "8" -> 8 [] c = "9" -> 9

DigitChar(n) == DigitChars[n + 1]

\* String.prototype.slice(0, n)
Slice0(s, n) == SubSeq(s, 1, Min(n, Len(s)))

\* String.prototype.endsWith
EndsWith(s, suffix) ==
    /\ Len(s) >= Len(suffix)
    /\ SubSeq(s, Len(s) - Len(suffix) + 1, Len(s)) = suffix

AllDigits(s) == \A i \in 1..Len(s) : IsDigit(CharAt(s, i))

RECURSIVE ParseNat(_)
ParseNat(s) ==
    IF s = "" THEN 0
    ELSE 10 * ParseNat(SubSeq(s, 1, Len(s) - 1)) + DigitVal(CharAt(s, Len(s)))

Pad2(n) == DigitChar((n \div 10) % 10) \o DigitChar(n % 10)

Pad4(n) == Pad2(n \div 100) \o Pad2(n % 100)

RECURSIVE NatToString(_)
NatToString(n) ==
    IF n < 10 THEN DigitChar(n) ELSE NatToString(n \div 10) \o DigitChar(n % 10)

(***************************************************************************)
(* Dates (ECMA-262 sec. 21.4.1), in days.                                  *)
(***************************************************************************)
DaysInYear(y) ==
    IF y % 4 # 0 THEN 365
    ELSE IF y % 100 # 0 THEN 366
    ELSE IF y % 400 # 0 THEN 365
    ELSE 366

DayFromYear(y) ==
    365 * (y - 1970) + ((y - 1969) \div 4) - ((y - 1901) \div 100)
        + ((y - 1601) \div 400)

\* The year y with DayFromYear(y) <= day < DayFromYear(y + 1); a year has
\* 365 or 366 days, which brackets it.
YearFromTime(day) ==
    CHOOSE y \in (1970 + day \div 366)..(1970 + day \div 365) :
        DayFromYear(y) <= day /\ day < DayFromYear(y + 1)

InLeapYear(y) == DaysInYear(y) = 366

\* The length of month m0 (0 = January) of year y.
DaysInMonth(y, m0) ==
    IF m0 = 1 THEN (IF InLeapYear(y) THEN 29 ELSE 28)
    ELSE IF m0 \in {3, 5, 8, 10} THEN 30
    ELSE 31

\* The day within a common year on which month m0 starts (12: the year ends).
MonthStart == <<0, 31, 59, 90, 120, 151, 181, 212, 243, 273, 304, 334, 365>>

DaysBeforeMonth(y, m0) ==
    MonthStart[m0 + 1] + (IF m0 >= 2 /\ InLeapYear(y) THEN 1 ELSE 0)

\* The month of year y that holds the day `within` the year.
MonthOf(y, within) ==
    CHOOSE m0 \in 0..11 :
        DaysBeforeMonth(y, m0) <= within /\ within < DaysBeforeMonth(y, m0 + 1)

MonthFromTime(day) ==
    MonthOf(YearFromTime(day), day - DayFromYear(YearFromTime(day)))

DateOf(y, within) == within - DaysBeforeMonth(y, MonthOf(y, within)) + 1

DateFromTime(day) ==
    DateOf(YearFromTime(day), day - DayFromYear(YearFromTime(day)))

\* Date.UTC(year, month0, date) in days.
MakeDay(y, m0, d) == DayFromYear(y) + DaysBeforeMonth(y, m0) + d - 1

\* Date.prototype.toISOString of a midnight time value: 24 characters.
toISOString(tv) ==
    Pad4(YearFromTime(tv)) \o "-" \o Pad2(MonthFromTime(tv) + 1) \o "-"
        \o Pad2(DateFromTime(tv)) \o "T00:00:00.000Z"

\* A Number that may be NaN.
NaN == [nan |-> TRUE, v |-> 0]
Number(n) == [nan |-> FALSE, v |-> n]

\* Date.UTC for a year, month (1..12) and day that exist; NaN otherwise.
DateOfYMD(y, m, d) ==
    IF m \in 1..12 /\ d \in 1..DaysInMonth(y, m - 1)
        THEN Number(MakeDay(y, m - 1, d))
    ELSE NaN

\* The fields of YYYY-MM-DD, each checked to be digits.
DateOfFields(y, sep1, m, sep2, d) ==
    IF AllDigits(y) /\ sep1 = "-" /\ AllDigits(m) /\ sep2 = "-" /\ AllDigits(d)
        THEN DateOfYMD(ParseNat(y), ParseNat(m), ParseNat(d))
    ELSE NaN

\* Date.parse: the date-only forms of the ECMAScript date-time string format
\* (YYYY, YYYY-MM, YYYY-MM-DD: UTC), and the form toISOString produces.  Any
\* other text of the model holds no digit and no month name, and is an
\* Invalid Date for the fallback parser too.
DateParse(s) ==
    IF Len(s) = 4 THEN DateOfFields(s, "-", "01", "-", "01")
    ELSE IF Len(s) = 7
        THEN DateOfFields(SubSeq(s, 1, 4), CharAt(s, 5), SubSeq(s, 6, 7), "-", "01")
    ELSE IF Len(s) = 10 \/ (Len(s) = 24 /\ SubSeq(s, 11, 24) = "T00:00:00.000Z")
        THEN DateOfFields(SubSeq(s, 1, 4), CharAt(s, 5), SubSeq(s, 6, 7),
                          CharAt(s, 8), SubSeq(s, 9, 10))
    ELSE NaN

\* new Date(v).getTime() for the date field of an entry.
GetTime(v) ==
    CASE v.t = "string" -> DateParse(v.s)
      [] v.t = "Date" -> Number(v.tv)
      [] v.t = "undefined" -> NaN

\* String(v), for the values a front-matter date takes in the model.
JsString(v) ==
    CASE v.t = "string" -> v.s
      [] v.t = "number" -> NatToString(v.n)

(***************************************************************************)
(* Markdown files and front-matter.                                        *)
(***************************************************************************)
\* YAML nodes of a front-matter block.
YAbsent == [y |-> "absent"]
YStr(s) == [y |-> "str", s |-> s]
YInt(n) == [y |-> "int", n |-> n]
YTimestamp(year, month, day) ==
    [y |-> "timestamp", year |-> year, month |-> month, day |-> day]
YSeq(items) == [y |-> "seq", items |-> items]

\* The value the YAML loader gives a node: a date literal becomes
\* new Date(Date.UTC(year, month - 1, day)).
FromYaml(node) ==
    CASE node.y = "absent" -> Undefined
      [] node.y = "str" -> Str(node.s)
      [] node.y = "int" -> Num(node.n)
      [] node.y = "timestamp" -> DateValue(MakeDay(node.year, node.month - 1, node.day))
      [] node.y = "seq" -> Arr([i \in 1..Len(node.items) |-> Str(node.items[i])])

Keys == {"title", "date", "slug", "tags", "filename"}

NoKeys == [k \in Keys |-> YAbsent]

\* A file: frontMatter is "none" (no block), "valid" or "invalid" (the YAML
\* of the block does not parse); body is the lines of text after the block.
MdFile(frontMatter, yaml, body) ==
    [readable |-> TRUE, frontMatter |-> frontMatter, yaml |-> yaml, body |-> body]

\* A directory entry readFileSync throws on (a directory, no permission).
UnreadableFile ==
    [readable |-> FALSE, frontMatter |-> "none", yaml |-> NoKeys, body |-> <<>>]

\* fm(content): throws on invalid YAML; no block gives attributes {}.
fm(content) ==
    [threw |-> content.frontMatter = "invalid",
     attributes |->
        [k \in Keys |->
            IF content.frontMatter = "valid" THEN FromYaml(content.yaml[k])
            ELSE Undefined],
     body |-> content.body]

(***************************************************************************)
(* The source directory.                                                   *)
(***************************************************************************)
ManifestName == "manifest.json"

\* A file of the directory that is no post.
DraftName == "draft.md.bak"

PostNames == <<"a.md", "b.md", "c.md", "d.md", "e.md">>

Absent == [t |-> "absent"]
ManifestFile(json) == [t |-> "file", json |-> json]

\* The names in directory d, manifest.json among them once it is written.
NamesIn(d, m) == DOMAIN d.files \cup (IF m = Absent THEN {} ELSE {ManifestName})

IsMd(f) == EndsWith(f, ".md")

RECURSIVE Perms(_)
Perms(S) ==
    IF S = {} THEN {<<>>}
    ELSE UNION {{<<x>> \o p : p \in Perms(S \ {x})} : x \in S}

\* The names that are no posts, in the listing.
Others(names) ==
    (IF DraftName \in names THEN <<DraftName>> ELSE <<>>)
        \o (IF ManifestName \in names THEN <<ManifestName>> ELSE <<>>)

Splice(p, others) ==
    IF p = <<>> THEN others ELSE <<Head(p)>> \o others \o Tail(p)

\* fs.readdirSync(postsDir): the names in the file system's order, which the
\* API leaves open and which is the same on every listing of an unchanged
\* directory: d.order is the order of the .md names.  The filter keeps the
\* relative order of the names it retains; the other names lie between
\* them, after the first.
Listing(d, m) == Splice(d.order, Others(NamesIn(d, m)))

\* Mutant: the listing is not filtered.
FilterMdNone(listing) == listing

\* .filter(f => f.endsWith('.md'))
\* A filter that takes manifest.json for a post as well.
FilterMdOrManifest(listing) ==
    SelectSeq(listing, LAMBDA f : IsMd(f) \/ f = ManifestName)

FilterMd(listing) == SelectSeq(listing, IsMd)

\* fs.readFileSync(filePath, 'utf-8'); manifest.json is a file without
\* front-matter.
ReadFile(d, filename) ==
    IF filename \in DOMAIN d.files THEN d.files[filename]
    ELSE MdFile("none", NoKeys, "[]")

(***************************************************************************)
(* The map callbacks of the two generators.                                *)
(***************************************************************************)
\* Mutant: the extension is left in place.
StripMdKept(filename) == filename

\* filename.replace(/\.md$/, '')
StripMd(filename) ==
    IF EndsWith(filename, ".md") THEN SubSeq(filename, 1, Len(filename) - 3)
    ELSE filename

\* dateStr of the sorting generator.
DateStr(attributes) ==
    IF attributes.date.t = "Date"
        THEN Slice0(toISOString(attributes.date.tv), 10)
    ELSE IF Truthy(attributes.date)
        THEN Slice0(JsString(attributes.date), 10)
    ELSE ""

NewEntry(title, date, slugOf, filename, tags) ==
    [title |-> title, date |-> date, slug |-> slugOf, filename |-> filename,
     tags |-> tags]

\* Mutant: a filename key of the front-matter overrides the file's name.
PostEntryDeclaredName(filename, attributes) ==
    NewEntry(OrElse(attributes.title, Str(filename)),
             Str(DateStr(attributes)),
             OrElse(attributes.slug, Str(StripMd(filename))),
             OrElse(attributes.filename, Str(filename)),
             OrElse(attributes.tags, Arr(<<>>)))

\* The object the sorting generator's callback returns.
PostEntry(filename, attributes) ==
    NewEntry(OrElse(attributes.title, Str(filename)),
             Str(DateStr(attributes)),
             OrElse(attributes.slug, Str(StripMd(filename))),
             Str(filename),
             OrElse(attributes.tags, Arr(<<>>)))

\* The object the callback of scripts/generate-manifest.cjs returns.
PostEntryCjs(filename, attributes) ==
    NewEntry(OrElse(attributes.title, Str(filename)),
             OrElse(attributes.date, Str("")),
             OrElse(attributes.slug, Str(StripMd(filename))),
             Str(filename),
             OrElse(attributes.tags, Arr(<<>>)))

\* The entry a generator's callback returns for a parsed file.
EntryOf(which, filename, attributes) ==
    IF which = "generate-manifest" THEN PostEntry(filename, attributes)
    ELSE PostEntryCjs(filename, attributes)

\* files.map(...): the entries built when the first read or parse throws,
\* or all of them.
RECURSIVE MapFiles(_, _, _, _)
RECURSIVE MapParsed(_, _, _, _, _)
MapParsed(which, d, files, acc, parsed) ==
    IF parsed.threw THEN [threw |-> TRUE, posts |-> acc]
    ELSE MapFiles(which, d, Tail(files),
                  Append(acc, EntryOf(which, Head(files), parsed.attributes)))

MapFiles(which, d, files, acc) ==
    IF files = <<>> THEN [threw |-> FALSE, posts |-> acc]
    ELSE IF ~ReadFile(d, Head(files)).readable
        THEN [threw |-> TRUE, posts |-> acc]
    ELSE MapParsed(which, d, files, acc, fm(ReadFile(d, Head(files))))

(***************************************************************************)
(* posts.sort(comparefn): Array.prototype.sort of the script's runtime     *)
(* (V8's TimSort; below 64 elements: one run is counted, the rest is       *)
(* inserted by binary search).  A comparefn result of NaN counts as +0.    *)
(***************************************************************************)
\* x - y on Numbers.
Minus(x, y) == IF x.nan \/ y.nan THEN NaN ELSE Number(x.v - y.v)

\* (a, b) => new Date(b.date).getTime() - new Date(a.date).getTime()
comparefn(a, b) == Minus(GetTime(b.date), GetTime(a.date))

NaNToZero(v) == IF v.nan THEN 0 ELSE v.v

SortCompare(x, y) == NaNToZero(comparefn(x, y))

Reverse(a) == [i \in 1..Len(a) |-> a[Len(a) + 1 - i]]

\* The length of the run that starts the array; idx is the next index.
RECURSIVE RunEnd(_, _, _)
RunEnd(a, descending, idx) ==
    IF idx > Len(a) THEN idx - 1
    ELSE LET order == SortCompare(a[idx], a[idx - 1])
         IN  IF (descending /\ order >= 0) \/ (~descending /\ order < 0)
                 THEN idx - 1
             ELSE RunEnd(a, descending, idx + 1)

\* The array with its first len elements reversed when they run down.
MakeRun(a, descending, len) ==
    [len |-> len,
     arr |-> IF descending
                 THEN Reverse(SubSeq(a, 1, len)) \o SubSeq(a, len + 1, Len(a))
                 ELSE a]

CountRun(a, descending) == MakeRun(a, descending, RunEnd(a, descending, 3))

CountAndMakeRun(a) == CountRun(a, SortCompare(a[2], a[1]) < 0)

\* The number of elements of a[1..right] that stay before the pivot.
RECURSIVE BinarySearch(_, _, _, _)
BinarySearch(a, pivot, left, right) ==
    IF left >= right THEN left
    ELSE LET mid == left + ((right - left) \div 2)
         IN  IF SortCompare(pivot, a[mid + 1]) < 0
                 THEN BinarySearch(a, pivot, left, mid)
             ELSE BinarySearch(a, pivot, mid + 1, right)

\* a with a[start + 1] moved to index left + 1.
MoveTo(a, start, left) ==
    SubSeq(a, 1, left) \o <<a[start + 1]>> \o SubSeq(a, left + 1, start)
        \o SubSeq(a, start + 2, Len(a))

\* The first `start` elements are sorted; insert the others one by one.
RECURSIVE BinaryInsertionSort(_, _)
BinaryInsertionSort(a, start) ==
    IF start >= Len(a) THEN a
    ELSE BinaryInsertionSort(
             MoveTo(a, start, BinarySearch(a, a[start + 1], 0, start)),
             start + 1)

SortRun(run) == BinaryInsertionSort(run.arr, run.len)

ArraySort(a) == IF Len(a) < 2 THEN a ELSE SortRun(CountAndMakeRun(a))

(***************************************************************************)
(* JSON.stringify(posts, null, 2), as the document it writes: a Date       *)
(* becomes its toISOString text, everything else of an entry is kept.      *)
(***************************************************************************)
RECURSIVE JSONValue(_)
JSONValue(v) ==
    CASE v.t = "Date" -> Str(toISOString(v.tv))
      [] v.t = "Array" -> Arr([i \in 1..Len(v.a) |-> JSONValue(v.a[i])])
      [] OTHER -> v

JSONStringify(entries) ==
    Arr([i \in 1..Len(entries) |->
            NewEntry(JSONValue(entries[i].title), JSONValue(entries[i].date),
                     JSONValue(entries[i].slug), JSONValue(entries[i].filename),
                     JSONValue(entries[i].tags))])

(***************************************************************************)
(* The two generator scripts, each a whole run.                            *)
(***************************************************************************)
\* posts.sort(...) is reached when no callback threw.
SortMapped(mapped) ==
    [threw |-> mapped.threw,
     posts |-> IF mapped.threw THEN mapped.posts ELSE ArraySort(mapped.posts)]

\* The sorting generator up to its write: posts, and whether it threw.
RunSorting(d, listing) ==
    SortMapped(MapFiles("generate-manifest", d, FilterMd(listing), <<>>))

\* scripts/generate-manifest.cjs up to its write.
RunCjs(d, listing) ==
    MapFiles("generate-manifest.cjs", d, FilterMd(listing), <<>>)

\* Mutant: the entries built so far are written although the run threw.
WrittenPartial(outcome, old) == ManifestFile(JSONStringify(outcome.posts))

\* fs.writeFileSync(manifestPath, ...) is the statement after the map and the
\* sort: a run that threw never reaches it.
Written(outcome, old) ==
    IF outcome.threw THEN old ELSE ManifestFile(JSONStringify(outcome.posts))

RendererUnchanged == UNCHANGED <<listVars, homeVars, postVars, themeVars>>

\* The end of a run: the write, or the uncaught exception.
Finish(which, outcome) ==
    /\ manifest' = Written(outcome, manifest)
    /\ exitCode' = (IF outcome.threw THEN "1" ELSE "0")
    /\ script' = which
    /\ UNCHANGED dir
    /\ RendererUnchanged

\* A run on a directory readdirSync cannot read.
RunUnreadable(which) ==
    /\ ~dir.readable
    /\ script' = which
    /\ exitCode' = "1"
    /\ UNCHANGED <<dir, manifest>>
    /\ RendererUnchanged

GenerateManifest ==
    \/ RunUnreadable("generate-manifest")
    \/ /\ dir.readable
       /\ Finish("generate-manifest", RunSorting(dir, Listing(dir, manifest)))

GenerateManifestCjs ==
    \/ RunUnreadable("generate-manifest.cjs")
    \/ /\ dir.readable
       /\ Finish("generate-manifest.cjs", RunCjs(dir, Listing(dir, manifest)))

(***************************************************************************)
(* The inputs: post files and directories.                                 *)
(***************************************************************************)
WithKeys(title, date, slugOf, tags, filename) ==
    [k \in Keys |->
        CASE k = "title" -> title
          [] k = "date" -> date
          [] k = "slug" -> slugOf
          [] k = "tags" -> tags
          [] k = "filename" -> filename]

\* date: 2025-01-01, no slug.
PostJan ==
    MdFile("valid",
           WithKeys(YStr("Jan"), YTimestamp(2025, 1, 1), YAbsent,
                    YSeq(<<"azure", "devops">>), YAbsent),
           <<"Hello">>)

\* date: 2025-06-01, a slug that is not the file's stem, a filename key.
PostJun ==
    MdFile("valid",
           WithKeys(YStr("Jun"), YTimestamp(2025, 6, 1), YStr("june"),
                    YSeq(<<"devops", "azure">>), YStr("other.md")),
           <<"World">>)

\* date: "New Year's Day 2025" (text), title: 42, tags: azure (a scalar).
PostFreeText ==
    MdFile("valid",
           WithKeys(YInt(42), YStr("New Year's Day 2025"), YAbsent,
                    YStr("azure"), YAbsent),
           <<"Free">>)

PostNoFrontMatter == MdFile("none", NoKeys, <<"Only a body">>)

PostBadYaml == MdFile("invalid", NoKeys, <<>>)

Contents ==
    {PostJan, PostJun, PostFreeText, PostNoFrontMatter, PostBadYaml, UnreadableFile}

MdNames(n) == {PostNames[i] : i \in 1..Min(n, Len(PostNames))}

\* A readable directory: the posts g, the draft, and the order of the posts.
Directory(g, order) ==
    [readable |-> TRUE,
     files |-> [f \in DOMAIN g \cup {DraftName} |->
                   IF f = DraftName THEN PostJan ELSE g[f]],
     order |-> order]

UnreadableDir == [readable |-> FALSE, files |-> <<>>, order |-> <<>>]

\* The manifest an earlier build left: of a directory that held a.md only.
StaleManifest ==
    ManifestFile(JSONStringify(
        RunSorting(Directory([f \in {"a.md"} |-> PostJan], <<"a.md">>),
                   <<"a.md">>).posts))

NoResponse == [t |-> "none"]

\* useState('paper')
InitialTheme == "paper"

\* The class of the root element of a document no effect of App has run on.
NoClass == ""

InitRenderer ==
    /\ posts = Arr(<<>>)
    /\ listFetch = "idle"
    /\ listManifest = NoResponse
    /\ recentPosts = Arr(<<>>)
    /\ homeFetch = "idle"
    /\ homeManifest = NoResponse
    /\ tag = Undefined
    /\ slug = Undefined
    /\ post = Null
    /\ postFetches = <<>>
    /\ postSettled = NoResponse
    /\ theme = InitialTheme
    /\ rootClassName = NoClass

\* dir is unreadable, or holds at most n posts out of `contents` in any order.
InitDir(n, contents) ==
    \/ dir = UnreadableDir
    \/ \E S \in SUBSET MdNames(n) :
         \E g \in [S -> contents] :
           \E order \in Perms(S) : dir = Directory(g, order)

\* The directory of the served site: unreadable, or at most n posts out of
\* `contents`, listed in the order of their names.  Every sequence of
\* contents is the listing of one of these directories.
InitSiteDir(n, contents) ==
    \/ dir = UnreadableDir
    \/ \E S \in SUBSET MdNames(n) :
         \E g \in [S -> contents] :
           dir = Directory(g, SelectSeq(PostNames, LAMBDA f : f \in S))

InitBuilder ==
    /\ InitDir(MaxFiles, Contents)
    /\ manifest \in {Absent, StaleManifest}
    /\ script = "none"
    /\ exitCode = "notrun"
    /\ InitRenderer

NextBuilder == GenerateManifest \/ GenerateManifestCjs

\* The build alone: the generators on every directory of the bound.
SpecBuilder == InitBuilder /\ [][NextBuilder]_vars

(***************************************************************************)
(* The consumers of manifest.json.  The server answers a fetch with the    *)
(* file as it is when the response is made; res.json() gives the document. *)
(***************************************************************************)
BuilderUnchanged == UNCHANGED <<dir, manifest, script, exitCode>>

\* A document { "posts": [...] }.
Obj(entries) == [t |-> "Object", posts |-> entries]

\* manifest.posts
PostsOf(json) == IF json.t = "Object" THEN json.posts ELSE Undefined

\* Array.prototype.slice(0, n)
ArraySlice0(a, n) == SubSeq(a, 1, Min(n, Len(a)))

\* The :tag parameters of the routes the model visits.
TagParams == {"azure", "az", "Azure"}

\* useParams(): /blog has no tag, /blog/tag/:tag has one.
TagRoutes == {Undefined} \cup {Str(t) : t \in TagParams}

\* String.prototype.includes(search): search is a substring of s.
StringIncludes(s, search) ==
    \E i \in 0..(Len(s) - Len(search)) : SubSeq(s, i + 1, i + Len(search)) = search

\* Array.prototype.includes(x): some element is the value x.
ArrayIncludes(a, x) == \E i \in 1..Len(a) : a[i] = x

\* post.tags?.includes(tag): the method of an array, or of a string.
TagsInclude(e, t) ==
    CASE e.tags.t = "Array" -> ArrayIncludes(e.tags.a, Str(t))
      [] e.tags.t = "string" -> StringIncludes(e.tags.s, t)
      [] e.tags.t \in {"undefined", "null"} -> FALSE

\* tag ? posts.filter(post => post.tags?.includes(tag)) : posts
filteredPosts(ps, t) ==
    IF Truthy(t) THEN SelectSeq(ps, LAMBDA e : TagsInclude(e, t.s)) ELSE ps

\* What the callback of flatMap adds for one post: the elements of
\* post.tags || [] when that is an array, else the value itself.
TagsOrEmpty(e) ==
    IF ~Truthy(e.tags) THEN <<>>
    ELSE IF e.tags.t = "Array" THEN e.tags.a
    ELSE <<e.tags>>

\* posts.flatMap(post => post.tags || [])
RECURSIVE FlatMapTags(_)
FlatMapTags(ps) ==
    IF ps = <<>> THEN <<>> ELSE TagsOrEmpty(Head(ps)) \o FlatMapTags(Tail(ps))

\* Array.from(new Set(items)): a Set keeps the order of first insertion.
RECURSIVE ArrayFromSet(_, _)
ArrayFromSet(items, seen) ==
    IF items = <<>> THEN seen
    ELSE ArrayFromSet(Tail(items),
                      IF ArrayIncludes(seen, Head(items)) THEN seen
                      ELSE Append(seen, Head(items)))

\* Tag strip of the filtered list only.
allTagsOfFiltered(ps) == ArrayFromSet(FlatMapTags(filteredPosts(ps, tag)), <<>>)

\* const allTags = Array.from(new Set(posts.flatMap(...)))
allTags(ps) == ArrayFromSet(FlatMapTags(ps), <<>>)

\* BlogList, a route of App, is mounted: useState([]), and the effect calls
\* loadLocalPosts.
MountBlogList ==
    /\ homeFetch # "idle"
    /\ \E t \in TagRoutes : tag' = t
    /\ posts' = Arr(<<>>)
    /\ listFetch' = "pending"
    /\ listManifest' = NoResponse
    /\ UNCHANGED <<homeVars, postVars>>
    /\ UNCHANGED themeVars
    /\ BuilderUnchanged

\* A link of the tag strip, or of the topics of Home, is followed while
\* BlogList is shown: the parameter changes, and the effect (dependencies [])
\* does not run again.
SelectTag ==
    /\ listFetch # "idle"
    /\ \E t \in TagRoutes \ {tag} : tag' = t
    /\ UNCHANGED <<posts, listFetch, listManifest, homeVars, postVars>>
    /\ UNCHANGED themeVars
    /\ BuilderUnchanged

\* A strip whose links never lead back to /blog.
toNeverClears(current, t) == "/blog/tag/" \o t.s

\* to={tag === t ? '/blog' : `/blog/tag/${t}`}: the path of the link of
\* tag t in the strip.
to(current, t) == IF current = t THEN "/blog" ELSE "/blog/tag/" \o t.s

\* The tag parameter of the route a path of the list view matches: /blog has
\* none, /blog/tag/:tag has the segment after /blog/tag/.
RouteTag(path) ==
    IF path = "/blog" THEN Undefined
    ELSE Str(SubSeq(path, Len("/blog/tag/") + 1, Len(path)))

\* A link of the tag strip is followed: the route changes, BlogList stays
\* mounted and its effect (dependencies []) does not run again.
FollowTagLink ==
    /\ listFetch # "idle"
    /\ posts.t = "Array"
    /\ \E i \in 1..Len(allTags(posts.a)) :
          tag' = RouteTag(to(tag, allTags(posts.a)[i]))
    /\ UNCHANGED <<posts, listFetch, listManifest, homeVars, postVars>>
    /\ UNCHANGED themeVars
    /\ BuilderUnchanged

\* loadLocalPosts after its awaits: setPosts(manifest).
LoadLocalPostsResolves ==
    /\ listFetch = "pending"
    /\ manifest # Absent
    /\ listManifest' = manifest.json
    /\ posts' = manifest.json
    /\ listFetch' = "done"
    /\ UNCHANGED <<tag, homeVars, postVars>>
    /\ UNCHANGED themeVars
    /\ BuilderUnchanged

\* Failure that keeps what the list holds from an earlier load.
LoadLocalPostsRejectsStale ==
    /\ listFetch = "pending"
    /\ listFetch' = "failed"
    /\ posts' = StaleManifest.json
    /\ UNCHANGED <<listManifest, tag, homeVars, postVars>>
    /\ UNCHANGED themeVars
    /\ BuilderUnchanged

\* fetch rejects, or res.json() rejects on the body of a 404: the promise of
\* loadLocalPosts rejects and nothing handles it.
LoadLocalPostsRejects ==
    /\ listFetch = "pending"
    /\ listFetch' = "failed"
    /\ UNCHANGED <<posts, listManifest, tag, homeVars, postVars>>
    /\ UNCHANGED themeVars
    /\ BuilderUnchanged

\* (t) => (t === 'dark' ? 'paper' : 'dark')
toggled(t) == IF t = "dark" THEN "paper" ELSE "dark"

\* A toggle whose effect does not run.
ToggleThemeNoEffect ==
    /\ homeFetch # "idle"
    /\ theme' = toggled(theme)
    /\ UNCHANGED <<rootClassName, listVars, homeVars, postVars>>
    /\ BuilderUnchanged

\* toggleTheme, the click handler of the button in the header of App:
\* setTheme, and after the render the effect on [theme] sets the class name
\* of the root element.
ToggleTheme ==
    /\ homeFetch # "idle"
    /\ theme' = toggled(theme)
    /\ rootClassName' = theme'
    /\ UNCHANGED <<listVars, homeVars, postVars>>
    /\ BuilderUnchanged

\* The page is loaded and App, the root, is mounted: useState([]), and the
\* effect calls fetchPosts.  No route component of an earlier page is left.
MountApp ==
    /\ recentPosts' = Arr(<<>>)
    /\ homeFetch' = "pending"
    /\ homeManifest' = NoResponse
    /\ posts' = Arr(<<>>)
    /\ listFetch' = "idle"
    /\ listManifest' = NoResponse
    /\ tag' = Undefined
    /\ slug' = Undefined
    /\ post' = Null
    /\ postFetches' = <<>>
    /\ postSettled' = NoResponse
    /\ theme' = InitialTheme
    /\ rootClassName' = InitialTheme
    /\ BuilderUnchanged

\* manifest.posts.sort(...).slice(0, 3): sort orders manifest.posts in place
\* and returns it, slice copies its first three.
SortedInPlace(sorted) ==
    /\ homeManifest' = Obj(Arr(sorted))
    /\ recentPosts' = Arr(ArraySlice0(sorted, 3))
    /\ homeFetch' = "done"

\* The try block of fetchPosts once the manifest is parsed: manifest.posts
\* of an array is undefined and .sort throws a TypeError, which is caught.
FetchPostsTry(json) ==
    IF PostsOf(json).t = "Array"
        THEN SortedInPlace(ArraySort(PostsOf(json).a))
        ELSE /\ homeManifest' = json
             /\ homeFetch' = "caught"
             /\ UNCHANGED recentPosts

FetchPostsResolves ==
    /\ homeFetch = "pending"
    /\ manifest # Absent
    /\ FetchPostsTry(manifest.json)
    /\ UNCHANGED <<listVars, postVars>>
    /\ UNCHANGED themeVars
    /\ BuilderUnchanged

\* fetch or res.json() rejects: the catch logs the error.
FetchPostsRejects ==
    /\ homeFetch = "pending"
    /\ homeFetch' = "caught"
    /\ UNCHANGED <<recentPosts, homeManifest, listVars, postVars>>
    /\ UNCHANGED themeVars
    /\ BuilderUnchanged

\* The posts of the served site.
SiteContents == {PostJan, PostJun, PostFreeText, PostNoFrontMatter}

\* A manifest.json of the wrapped shape, as App reads it: the entries of
\* a.md (2025-01-01) and b.md (2025-06-01) in that order.
WrappedManifest ==
    ManifestFile(Obj(JSONStringify(
        RunCjs(Directory([f \in {"a.md", "b.md"} |->
                             IF f = "a.md" THEN PostJan ELSE PostJun],
                         <<"a.md", "b.md">>),
               <<"a.md", "b.md">>).posts)))

\* A manifest.json of the wrapped shape with four entries, in the order of
\* the files: a.md (2025-01-01), b.md and c.md (no front-matter: date '')
\* and d.md (2025-06-01).
WrappedUndated ==
    ManifestFile(Obj(JSONStringify(
        RunCjs(Directory([f \in {"a.md", "b.md", "c.md", "d.md"} |->
                             CASE f = "a.md" -> PostJan
                               [] f = "b.md" -> PostNoFrontMatter
                               [] f = "c.md" -> PostNoFrontMatter
                               [] f = "d.md" -> PostJun],
                         <<"a.md", "b.md", "c.md", "d.md">>),
               <<"a.md", "b.md", "c.md", "d.md">>).posts)))

Init ==
    /\ InitSiteDir(MaxSitePosts, SiteContents)
    /\ manifest \in {Absent, StaleManifest, WrappedManifest, WrappedUndated}
    /\ script = "none"
    /\ exitCode = "notrun"
    /\ InitRenderer

Next ==
    \/ GenerateManifest
    \/ GenerateManifestCjs
    \/ MountBlogList
    \/ SelectTag
    \/ FollowTagLink
    \/ LoadLocalPostsResolves
    \/ LoadLocalPostsRejects
    \/ MountApp
    \/ ToggleTheme
    \/ FetchPostsResolves
    \/ FetchPostsRejects

\* The build and the site.
Spec == Init /\ [][Next]_vars

(***************************************************************************)
(* BlogPost: one post, loaded by its slug.                                 *)
(***************************************************************************)
\* The largest number of fetchPost calls in flight at once.
MaxInFlight == 2

\* The :slug parameters of the routes the model visits.
SlugParams == {"a", "b", "june"}

\* base of vite.config
BasePath == "/the-orchestration-layer/"

\* lib/resolveAsset: the path under the base path of the deployment.
resolveAsset(path) == BasePath \o path

\* resolveAsset(`src/posts/${slug}.md`)
PostUrl(s) == resolveAsset("src/posts/" \o s \o ".md")

\* The body of a response for a path that names no file: a page, text
\* without front-matter.
NotFoundPage == MdFile("none", NoKeys, <<"<h1>404</h1>">>)

\* The static server on the copy of src/posts: the file of that path, or
\* the 404 response.
Serve(d, url) ==
    IF \E f \in DOMAIN d.files : resolveAsset("src/posts/" \o f) = url
        THEN [status |-> 200,
              text |-> d.files[CHOOSE f \in DOMAIN d.files :
                                  resolveAsset("src/posts/" \o f) = url]]
        ELSE [status |-> 404, text |-> NotFoundPage]

RemoveAt(s, i) == SubSeq(s, 1, i - 1) \o SubSeq(s, i + 1, Len(s))

\* How a fetchPost call ended: "resolved" (setPost was called), "threw"
\* (frontMatter threw) or "rejected" (fetch rejected, status 0).
Settled(s, outcome, status) ==
    [t |-> "settled", slug |-> s, outcome |-> outcome, status |-> status]

\* { title: attributes.title, date: attributes.date, content: body }
NewPost(parsed) ==
    [t |-> "post", title |-> parsed.attributes.title,
     date |-> parsed.attributes.date, content |-> parsed.body]

\* setPost only when the response is that of the slug now shown.
AppliedIfCurrent(s, parsed) == IF slug = Str(s) THEN NewPost(parsed) ELSE post

\* setPost(...) of the call for slug s: the state setter of the component,
\* whatever slug is shown by now.
Applied(s, parsed) == NewPost(parsed)

\* A change of slug that puts the view back to loading.
NavigatePostReset ==
    /\ homeFetch # "idle"
    /\ Len(postFetches) < MaxInFlight
    /\ \E s \in SlugParams :
          /\ slug # Str(s)
          /\ slug' = Str(s)
          /\ postFetches' = Append(postFetches, s)
    /\ post' = Null
    /\ UNCHANGED <<postSettled, listVars, homeVars>>
    /\ UNCHANGED themeVars
    /\ BuilderUnchanged

\* The route /blog/:slug is entered, or its parameter changes: the effect
\* (dependencies [slug]) calls fetchPost; post keeps its value.
NavigatePost ==
    /\ homeFetch # "idle"
    /\ Len(postFetches) < MaxInFlight
    /\ \E s \in SlugParams :
          /\ slug # Str(s)
          /\ slug' = Str(s)
          /\ postFetches' = Append(postFetches, s)
    /\ UNCHANGED <<post, postSettled, listVars, homeVars>>
    /\ UNCHANGED themeVars
    /\ BuilderUnchanged

\* Another route is entered: BlogPost is unmounted, its state is gone and
\* the calls in flight end without effect.
LeavePost ==
    /\ slug # Undefined
    /\ slug' = Undefined
    /\ post' = Null
    /\ postFetches' = <<>>
    /\ postSettled' = NoResponse
    /\ UNCHANGED <<listVars, homeVars>>
    /\ UNCHANGED themeVars
    /\ BuilderUnchanged

\* fetchPost after res.text(): frontMatter(md), then setPost.  res.ok and
\* res.status are not read.
FetchPostParsed(s, status, parsed) ==
    IF parsed.threw
        THEN /\ postSettled' = Settled(s, "threw", status)
             /\ UNCHANGED post
        ELSE /\ postSettled' = Settled(s, "resolved", status)
             /\ post' = Applied(s, parsed)

FetchPostResponse(s, response) == FetchPostParsed(s, response.status, fm(response.text))

\* The response of one of the calls in flight arrives, in any order.
FetchPostResolves ==
    /\ \E i \in 1..Len(postFetches) :
          /\ postFetches' = RemoveAt(postFetches, i)
          /\ FetchPostResponse(postFetches[i], Serve(dir, PostUrl(postFetches[i])))
    /\ UNCHANGED <<slug, listVars, homeVars>>
    /\ UNCHANGED themeVars
    /\ BuilderUnchanged

\* fetch rejects (a network error): the promise of fetchPost rejects and
\* nothing handles it.
FetchPostRejects ==
    /\ \E i \in 1..Len(postFetches) :
          /\ postFetches' = RemoveAt(postFetches, i)
          /\ postSettled' = Settled(postFetches[i], "rejected", 0)
    /\ UNCHANGED <<slug, post, listVars, homeVars>>
    /\ UNCHANGED themeVars
    /\ BuilderUnchanged

\* if (!post) return <div>Loading...</div>
Loading == ~Truthy(post)

\* The marker of a code fence (three backticks, or three tildes).
Fence == "~~~"

StartsWith(s, prefix) ==
    Len(s) >= Len(prefix) /\ SubSeq(s, 1, Len(prefix)) = prefix

\* The info string of an opening fence, and its first word: the language.
InfoOf(line) == SubSeq(line, Len(Fence) + 1, Len(line))

RECURSIVE FirstWord(_)
FirstWord(s) ==
    IF s = "" \/ CharAt(s, 1) = " " THEN ""
    ELSE CharAt(s, 1) \o FirstWord(SubSeq(s, 2, Len(s)))

\* The index of the first fence line of lines at or after i, or Len + 1.
RECURSIVE NextFence(_, _)
NextFence(lines, i) ==
    IF i > Len(lines) \/ StartsWith(lines[i], Fence) THEN i
    ELSE NextFence(lines, i + 1)

\* ReactMarkdown on a fenced block: the code component gets className
\* language-<lang> when the fence names a language, and none when not.
CodeProps(lang, text) ==
    [className |-> IF lang = "" THEN Undefined ELSE Str("language-" \o lang),
     children |-> text]

\* The fenced blocks of a document from line i on: a block opens at a fence
\* line and ends before the next one (or with the document).
RECURSIVE FencedBlocks(_, _)
FencedBlocks(lines, i) ==
    IF NextFence(lines, i) > Len(lines) THEN <<>>
    ELSE <<CodeProps(FirstWord(InfoOf(lines[NextFence(lines, i)])),
                     SubSeq(lines, NextFence(lines, i) + 1,
                            NextFence(lines, NextFence(lines, i) + 1) - 1))>>
            \o FencedBlocks(lines, NextFence(lines, NextFence(lines, i) + 1) + 1)

\* \w
WordChars ==
    {"a", "b", "c", "d", "e", "f", "g", "h", "i", "j", "k", "l", "m", "n", "o",
     "p", "q", "r", "s", "t", "u", "v", "w", "x", "y", "z", "A", "B", "C", "D",
     "E", "F", "G", "H", "I", "J", "K", "L", "M", "N", "O", "P", "Q", "R", "S",
     "T", "U", "V", "W", "X", "Y", "Z", "0", "1", "2", "3", "4", "5", "6", "7",
     "8", "9", "_"}

\* (\w+) at the head of s, greedy.
RECURSIVE WordRun(_)
WordRun(s) ==
    IF s = "" \/ CharAt(s, 1) \notin WordChars THEN ""
    ELSE CharAt(s, 1) \o WordRun(SubSeq(s, 2, Len(s)))

\* The positions of s at which /language-(\w+)/ matches.
MatchStarts(s) ==
    {i \in 1..Len(s) :
        /\ i + Len("language-") <= Len(s)
        /\ SubSeq(s, i, i + Len("language-") - 1) = "language-"
        /\ CharAt(s, i + Len("language-")) \in WordChars}

\* The leftmost match and its group 1.
MatchAt(s, starts) ==
    IF starts = {} THEN Null
    ELSE [t |-> "match",
          group1 |-> WordRun(SubSeq(s, Len("language-")
                                        + (CHOOSE i \in starts : \A j \in starts : i <= j),
                                    Len(s)))]

\* /language-(\w+)/.exec(s)
RegExpExec(s) == MatchAt(s, MatchStarts(s))

\* className || ''
ClassNameOrEmpty(className) == IF Truthy(className) THEN className.s ELSE ""

\* return match ? <SyntaxHighlighter language={match[1]} ...> : <code className={className} ...>
CodeElement(match, props) ==
    IF Truthy(match)
        THEN [element |-> "SyntaxHighlighter", language |-> match.group1,
              className |-> Undefined]
        ELSE [element |-> "code", language |-> "", className |-> props.className]

\* The code component of ReactMarkdown.
code(props) == CodeElement(RegExpExec(ClassNameOrEmpty(props.className)), props)

\* <ReactMarkdown components={{ code }}>{post.content}</ReactMarkdown>: the
\* elements the fenced blocks of the content are rendered as.
RenderedCode(content) ==
    [i \in 1..Len(FencedBlocks(content, 1)) |-> code(FencedBlocks(content, 1)[i])]

\* A post with fenced code (the fences written with tildes): a fence tagged
\* js, one without a tag, one tagged c++.
PostCode ==
    MdFile("valid",
           WithKeys(YStr("Code"), YStr("2025-03-01"), YAbsent, YSeq(<<"code">>),
                    YAbsent),
           <<"# Code", "~~~js", "const x=1;", "~~~", "~~~", "plain", "~~~",
             "~~~c++", "int x;", "~~~">>)

\* The posts of the site BlogPost is shown on.
PostSiteContents == {PostJun, PostCode, PostBadYaml}

\* The page is loaded and fetchPosts of App has ended in its catch.
InitPost ==
    /\ InitSiteDir(MaxSitePosts, PostSiteContents)
    /\ manifest = Absent
    /\ script = "none"
    /\ exitCode = "notrun"
    /\ posts = Arr(<<>>)
    /\ listFetch = "idle"
    /\ listManifest = NoResponse
    /\ tag = Undefined
    /\ recentPosts = Arr(<<>>)
    /\ homeFetch = "caught"
    /\ homeManifest = NoResponse
    /\ slug = Undefined
    /\ post = Null
    /\ postFetches = <<>>
    /\ postSettled = NoResponse
    /\ theme = InitialTheme
    /\ rootClassName = InitialTheme

NextPost ==
    \/ GenerateManifest
    \/ NavigatePost
    \/ LeavePost
    \/ FetchPostResolves
    \/ FetchPostRejects

\* The build and the post view.
SpecPost == InitPost /\ [][NextPost]_vars

(***************************************************************************)
(* What the claims speak of.                                               *)
(***************************************************************************)
\* The last generator run ended by writing the manifest.
Built == script # "none" /\ exitCode = "0"

BuiltBy(which) == script = which /\ exitCode = "0"

\* The entries of the manifest file.
Entries == manifest.json.a

\* The posts of the directory: its files other than the draft.
PostsIn(d) == DOMAIN d.files \ {DraftName}

\* The front-matter value of key k in post f.
Declared(f, k) == dir.files[f].yaml[k]

HasFrontMatter(f) == dir.files[f].frontMatter = "valid"

\* The date field of an entry is a date, and its day number.
IsDated(e) == e.date.t = "string" /\ ~DateParse(e.date.s).nan

DayOf(e) == DateParse(e.date.s).v

\* YYYY-MM-DD for a calendar date.
FormatYMD(year, month, day) == Pad4(year) \o "-" \o Pad2(month) \o "-" \o Pad2(day)

\* The name of post f without its extension.
Stem(f) == CHOOSE stem \in {"a", "b", "c", "d", "e"} : stem \o ".md" = f

\* C1: the manifest a generator writes is sorted by date descending: no
\* entry is directly followed by an entry of a later date.
C1_ManifestSortedDescending ==
    Built =>
        \A i \in 1..(Len(Entries) - 1) :
            (IsDated(Entries[i]) /\ IsDated(Entries[i + 1]))
                => DayOf(Entries[i]) >= DayOf(Entries[i + 1])

\* C2: in the manifest of the sorting generator every two dated entries
\* stand with the later date first, wherever the undated entries are and
\* whatever the order of the directory listing.
C2_DatedEntriesInOrder ==
    BuiltBy("generate-manifest") =>
        \A i, j \in 1..Len(Entries) :
            (i < j /\ IsDated(Entries[i]) /\ IsDated(Entries[j]))
                => DayOf(Entries[i]) >= DayOf(Entries[j])

\* C3: the manifest entry of a post whose front-matter date is a calendar
\* literal has, as its date, the ten characters YYYY-MM-DD of that date.
C3_StructuredDateFormatted ==
    Built =>
        \A f \in PostsIn(dir) :
            (HasFrontMatter(f) /\ Declared(f, "date").y = "timestamp")
                => \E i \in 1..Len(Entries) :
                      /\ Entries[i].filename = Str(f)
                      /\ Entries[i].date =
                            Str(FormatYMD(Declared(f, "date").year,
                                          Declared(f, "date").month,
                                          Declared(f, "date").day))

\* The calendar day a date text of the model denotes.
DayDenoted(text) ==
    CASE text = "New Year's Day 2025" -> <<2025, 1, 1>>

\* The manifest date of post f, in the manifest of the last run.
ManifestDate(f) ==
    (CHOOSE e \in {Entries[i] : i \in 1..Len(Entries)} : e.filename = Str(f)).date

\* C4: the sorting generator gives a post with a text date the first ten
\* characters of the text, and a text date and a structured date of the
\* same day give the same manifest date.
C4_TextDateVerbatimAndCollapsing ==
    BuiltBy("generate-manifest") =>
        /\ \A f \in PostsIn(dir) :
              (HasFrontMatter(f) /\ Declared(f, "date").y = "str")
                  => ManifestDate(f) = Str(Slice0(Declared(f, "date").s, 10))
        /\ \A f, g \in PostsIn(dir) :
              (/\ HasFrontMatter(f) /\ Declared(f, "date").y = "str"
               /\ HasFrontMatter(g) /\ Declared(g, "date").y = "timestamp"
               /\ DayDenoted(Declared(f, "date").s)
                    = <<Declared(g, "date").year, Declared(g, "date").month,
                        Declared(g, "date").day>>)
                  => ManifestDate(f) = ManifestDate(g)

\* A run throws only on a directory it cannot read or on front-matter that
\* does not parse.
ThrowsOnlyOnBadInput ==
    exitCode = "1" =>
        \/ ~dir.readable
        \/ \E f \in PostsIn(dir) :
              ~dir.files[f].readable \/ dir.files[f].frontMatter = "invalid"

\* C5: a post without front-matter raises no error, and its manifest entry
\* has title = the file name, slug = the file name without .md, tags = []
\* and date = "".
C5_NoFrontMatterDefaults ==
    /\ ThrowsOnlyOnBadInput
    /\ Built =>
          \A f \in PostsIn(dir) :
              dir.files[f].frontMatter = "none"
                  => \E i \in 1..Len(Entries) :
                        Entries[i] = NewEntry(Str(f), Str(""), Str(Stem(f)),
                                              Str(f), Arr(<<>>))

\* C5 witness: a manifest was built of a directory with such a post.
C5_Witness ==
    Built /\ \E f \in PostsIn(dir) : dir.files[f].frontMatter = "none"

\* The file names of the entries, in manifest order.
EntryNames == [i \in 1..Len(Entries) |-> Entries[i].filename]

\* C6: a manifest holds exactly one entry for each post of the directory
\* and no entry for another file (the draft, manifest.json).
C6_OneEntryPerPost ==
    Built =>
        /\ Len(Entries) = Cardinality(PostsIn(dir))
        /\ {EntryNames[i] : i \in 1..Len(Entries)} = {Str(f) : f \in PostsIn(dir)}

\* C6 witness: a manifest built while manifest.json lay in the directory,
\* of at least two posts.
C6_Witness ==
    /\ Built
    /\ Cardinality(PostsIn(dir)) >= 2
    /\ ManifestName \in NamesIn(dir, manifest)
    /\ Len(Entries) >= 2

\* The title the front-matter of post f declares, or none.
DeclaredTitle(f) ==
    IF HasFrontMatter(f) /\ Declared(f, "title").y = "str"
        THEN Str(Declared(f, "title").s)
    ELSE IF HasFrontMatter(f) /\ Declared(f, "title").y = "int"
        THEN Num(Declared(f, "title").n)
    ELSE Str(f)

\* C7: the filename of an entry is the on-disk name of the post it was built
\* from (the entry of that name carries that post's title), whatever
\* filename key the front-matter declares.
C7_FilenameIsOnDiskName ==
    Built =>
        /\ \A i \in 1..Len(Entries) :
              \E f \in PostsIn(dir) : Entries[i].filename = Str(f)
        /\ \A f \in PostsIn(dir) :
              \E i \in 1..Len(Entries) :
                  /\ Entries[i].filename = Str(f)
                  /\ Entries[i].title = DeclaredTitle(f)

\* C7 witness: a manifest built of a post that declares a filename key.
C7_Witness ==
    /\ Built
    /\ \E f \in PostsIn(dir) :
          HasFrontMatter(f) /\ Declared(f, "filename").y = "str"

\* The directory makes a generator fail.
BuilderFails ==
    \/ ~dir.readable
    \/ \E f \in PostsIn(dir) :
          ~dir.files[f].readable \/ dir.files[f].frontMatter = "invalid"

\* C8: a generator run on a directory it cannot read, or with a post it
\* cannot parse, exits with an error, and a run that exits with an error
\* leaves manifest.json as it was.
C8_FailureWritesNothing ==
    [][/\ BuilderFails => exitCode' = "1"
       /\ exitCode' = "1" => manifest' = manifest]_vars

\* C8 witness: a run has failed where an earlier manifest lay, after a post
\* that parses was read.
C8_Witness ==
    /\ exitCode = "1"
    /\ manifest = StaleManifest
    /\ dir.readable
    /\ Len(dir.order) >= 2
    /\ dir.files[dir.order[1]].readable
    /\ dir.files[dir.order[1]].frontMatter # "invalid"

\* C9: in the manifest of the sorting generator every field is well-formed:
\* title, date and slug are strings and tags is a collection of strings.
C9_FieldsWellFormed ==
    BuiltBy("generate-manifest") =>
        \A i \in 1..Len(Entries) :
            /\ Entries[i].title.t = "string"
            /\ Entries[i].date.t = "string"
            /\ Entries[i].slug.t = "string"
            /\ Entries[i].tags.t = "Array"
            /\ \A k \in 1..Len(Entries[i].tags.a) :
                  Entries[i].tags.a[k].t = "string"

\* A consumer has parsed an array manifest with entries.
GotEntries(json) == json.t = "Array" /\ Len(json.a) > 0

\* C10: the generators write a bare array, and a consumer that has parsed
\* the manifest a generator wrote, with entries, holds a non-empty post list.
C10_ConsumersReadBuilderShape ==
    /\ Built => manifest.json.t = "Array"
    /\ (Built /\ listFetch = "done" /\ listManifest = manifest.json
            /\ GotEntries(listManifest))
          => Len(posts.a) > 0
    /\ (Built /\ homeFetch \in {"done", "caught"} /\ homeManifest = manifest.json
            /\ GotEntries(homeManifest))
          => Len(recentPosts.a) > 0

(***************************************************************************)
(* The list view.                                                          *)
(***************************************************************************)
\* BlogList holds a manifest it loaded, an array.
ListLoaded == listFetch = "done" /\ posts.t = "Array"

\* The tags of a manifest entry, in declared order; a scalar is one tag.
TagsOf(e) ==
    IF e.tags.t = "Array" THEN e.tags.a
    ELSE IF e.tags.t = "string" THEN <<e.tags>>
    ELSE <<>>

\* Entry e carries tag t: t is, as a whole, one of its tags.
HasTag(e, t) == \E k \in 1..Len(TagsOf(e)) : TagsOf(e)[k] = Str(t)

\* C11: with a tag filter the list shows exactly the entries that carry the
\* tag as a whole, case-sensitive element of their tags: as many as carry
\* it, and none that has it only as a substring or in another case.
C11_TagFilterExact ==
    (ListLoaded /\ tag # Undefined) =>
        /\ \A i \in 1..Len(posts.a) :
              ArrayIncludes(filteredPosts(posts.a, tag), posts.a[i])
                  <=> HasTag(posts.a[i], tag.s)
        /\ Len(filteredPosts(posts.a, tag))
              = Cardinality({i \in 1..Len(posts.a) : HasTag(posts.a[i], tag.s)})

\* s is t with some elements left out.
RECURSIVE IsSubseq(_, _)
IsSubseq(s, t) ==
    IF s = <<>> THEN TRUE
    ELSE IF t = <<>> THEN FALSE
    ELSE IF Head(s) = Head(t) THEN IsSubseq(Tail(s), Tail(t))
    ELSE IsSubseq(s, Tail(t))

\* C12: no consumer re-sorts.  What BlogList shows is the manifest it
\* loaded with entries left out (none without a tag filter); a load hands a
\* consumer the served manifest in the served order, and what Home shows is
\* the served sequence with entries left out.
C12_RendererNeverReSorts ==
    [][/\ ListLoaded' =>
            /\ IsSubseq(filteredPosts(posts'.a, tag'), listManifest'.a)
            /\ tag' = Undefined => filteredPosts(posts'.a, tag') = listManifest'.a
       /\ (listFetch = "pending" /\ listFetch' = "done") =>
            /\ listManifest' = manifest.json
            /\ posts' = manifest.json
       /\ (homeFetch = "pending" /\ homeFetch' = "done") =>
            /\ homeManifest' = manifest.json
            /\ IsSubseq(recentPosts'.a, PostsOf(manifest.json).a)]_vars

\* Where tag t stands in the traversal of the manifest.
Occurs(ps, t) ==
    UNION {{<<i, k>> : k \in {n \in 1..Len(TagsOf(ps[i])) : TagsOf(ps[i])[n] = t}} :
              i \in 1..Len(ps)}

Before(p, q) == p[1] < q[1] \/ (p[1] = q[1] /\ p[2] < q[2])

FirstOccurrence(ps, t) ==
    CHOOSE p \in Occurs(ps, t) : \A q \in Occurs(ps, t) : p = q \/ Before(p, q)

\* strip lists every tag of ps once, in the order of first occurrence.
ListsTagsFirstSeen(strip, ps) ==
    /\ \A i, j \in 1..Len(strip) : i # j => strip[i] # strip[j]
    /\ {strip[i] : i \in 1..Len(strip)}
          = UNION {{TagsOf(ps[i])[k] : k \in 1..Len(TagsOf(ps[i]))} : i \in 1..Len(ps)}
    /\ \A i, j \in 1..Len(strip) :
          i < j => Before(FirstOccurrence(ps, strip[i]), FirstOccurrence(ps, strip[j]))

\* C13: the tag strip lists each tag of the loaded manifest once, in the
\* order of first occurrence (entries in manifest order, tags in declared
\* order), whatever the tag filter is.
C13_TagStripFirstSeen ==
    ListLoaded => ListsTagsFirstSeen(allTags(posts.a), posts.a)

\* C13 witness: a manifest with a repeated tag is loaded under a tag filter
\* whose list has not all the tags of the strip.
C13_Witness ==
    /\ ListLoaded
    /\ tag # Undefined
    /\ Len(allTags(posts.a)) >= 2
    /\ Len(FlatMapTags(posts.a)) > Len(allTags(posts.a))
    /\ allTagsOfFiltered(posts.a) # allTags(posts.a)

\* C19: after a failed manifest fetch the consumer holds its initial empty
\* list: BlogList shows no posts and no tags, Home has no recent posts.
C19_FailedManifestFetchSilent ==
    /\ listFetch = "failed" =>
          /\ posts = Arr(<<>>)
          /\ allTags(posts.a) = <<>>
          /\ filteredPosts(posts.a, tag) = <<>>
    /\ (homeFetch = "caught" /\ homeManifest = NoResponse) =>
          recentPosts = Arr(<<>>)

\* C19 witness: both fetches have failed while a manifest with entries is
\* served.
C19_Witness ==
    /\ listFetch = "failed"
    /\ homeFetch = "caught"
    /\ homeManifest = NoResponse
    /\ manifest # Absent
    /\ manifest.json.t = "Array"
    /\ Len(manifest.json.a) > 0

(***************************************************************************)
(* The post view.                                                          *)
(***************************************************************************)
\* The fetchPost call that ended last was for slug s and met no network
\* error.
LoadEnded(s) ==
    /\ postSettled.t = "settled"
    /\ postSettled.slug = s
    /\ postSettled.outcome # "rejected"

\* Post file f declares slug s in front-matter that parses.
DeclaresSlug(f, s) == HasFrontMatter(f) /\ Declared(f, "slug") = YStr(s)

\* The post BlogPost holds is that of file f: its declared title and date
\* (a calendar literal as the Date of that day) and its body.
IsPostOf(f) ==
    /\ post.t = "post"
    /\ post.title = FromYaml(Declared(f, "title"))
    /\ post.date = FromYaml(Declared(f, "date"))
    /\ post.content = dir.files[f].body

\* C14: round trip of a load: when the load of slug s has ended, the post
\* has the title, the date and the body of the post file that declares
\* slug s.
C14_LoadPostRoundTrip ==
    \A s \in SlugParams :
        \A f \in PostsIn(dir) :
            (DeclaresSlug(f, s) /\ LoadEnded(s)) => IsPostOf(f)

\* The index of the first manifest entry of slug s.
FirstEntryOf(s) ==
    CHOOSE i \in 1..Len(Entries) :
        /\ Entries[i].slug = Str(s)
        /\ \A j \in 1..(i - 1) : Entries[j].slug # Str(s)

\* Two post files declare slug s.
SlugCollides(s) ==
    \E f, g \in PostsIn(dir) : f # g /\ DeclaresSlug(f, s) /\ DeclaresSlug(g, s)

\* C15: when two files declare one slug, the manifest the sorting generator
\* writes has the entries of both, and a load of that slug ends with the
\* post of the file the first manifest entry of the slug names.
C15_SlugCollisionResolvesFirstEntry ==
    \A s \in SlugParams :
        (BuiltBy("generate-manifest") /\ SlugCollides(s)) =>
            /\ \A f \in PostsIn(dir) :
                  DeclaresSlug(f, s) =>
                      \E i \in 1..Len(Entries) :
                          Entries[i].filename = Str(f) /\ Entries[i].slug = Str(s)
            /\ LoadEnded(s) =>
                  \E f \in PostsIn(dir) :
                      /\ Entries[FirstEntryOf(s)].filename = Str(f)
                      /\ IsPostOf(f)

\* C16: once a fetchPost call has failed, by a network error or by a 404
\* response, no post is held: post is null and the view shows Loading.
C16_FailedLoadStaysLoading ==
    (/\ postSettled.t = "settled"
     /\ postSettled.outcome = "rejected" \/ postSettled.status = 404)
        => (post = Null /\ Loading)

\* The post the response for slug s carries.
PostServed(s) == NewPost(fm(Serve(dir, PostUrl(s)).text))

\* C17: a call that was superseded is neither cancelled nor discarded: a
\* change of slug leaves the earlier calls in flight, and a response that
\* arrives is applied to post whatever slug is shown by then.
C17_SupersededFetchStillApplied ==
    [][/\ (slug # Undefined /\ slug' # Undefined /\ slug' # slug) =>
            postFetches' = Append(postFetches, slug'.s)
       /\ \A i \in 1..Len(postFetches) :
            (/\ postFetches' = RemoveAt(postFetches, i)
             /\ postSettled'.t = "settled"
             /\ postSettled'.outcome = "resolved"
             /\ postSettled'.slug = postFetches[i])
                => post' = PostServed(postFetches[i])]_vars

\* C17 witness: the user went from a to b, the response for b arrived, then
\* the response for a: the view shows the post of a.md while the slug is b.
C17_Witness ==
    /\ slug = Str("b")
    /\ postFetches = <<>>
    /\ LoadEnded("a")
    /\ {"a.md", "b.md"} \subseteq PostsIn(dir)
    /\ post = PostServed("a")
    /\ post # PostServed("b")

\* The fetches in flight: a pending load of BlogList, of App, and each
\* fetchPost call of BlogPost.
FetchesInFlight ==
    {<<"BlogPost", i>> : i \in 1..Len(postFetches)}
        \cup (IF listFetch = "pending" THEN {<<"BlogList", 1>>} ELSE {})
        \cup (IF homeFetch = "pending" THEN {<<"App", 1>>} ELSE {})

\* The component state the completion of a fetch writes: setPost, setPosts,
\* setRecentPosts.
WrittenBy(fetch) ==
    CASE fetch[1] = "BlogPost" -> {"post"}
      [] fetch[1] = "BlogList" -> {"posts"}
      [] fetch[1] = "App" -> {"recentPosts"}

\* C18: no two fetches in flight at the same time write the same state.
C18_NoStateSharedAcrossFetches ==
    \A x, y \in FetchesInFlight :
        x # y => WrittenBy(x) \cap WrittenBy(y) = {}

\* The language tag of the i-th fenced block of a document: the first word
\* after the marker of its opening fence.
RECURSIVE OpeningFences(_, _, _)
OpeningFences(lines, i, open) ==
    IF i > Len(lines) THEN <<>>
    ELSE IF ~StartsWith(lines[i], Fence) THEN OpeningFences(lines, i + 1, open)
    ELSE IF open THEN OpeningFences(lines, i + 1, FALSE)
    ELSE <<lines[i]>> \o OpeningFences(lines, i + 1, TRUE)

LanguageTag(line) == FirstWord(SubSeq(line, Len(Fence) + 1, Len(line)))

\* C20: of the post shown, a fenced block goes to the highlighter exactly
\* when its fence carries a language tag, with the whole tag as the
\* language; a block without a tag is a plain code element.
C20_HighlightExactlyTaggedFences ==
    post.t = "post" =>
        /\ Len(RenderedCode(post.content)) = Len(OpeningFences(post.content, 1, FALSE))
        /\ \A i \in 1..Len(OpeningFences(post.content, 1, FALSE)) :
              IF LanguageTag(OpeningFences(post.content, 1, FALSE)[i]) # ""
                  THEN /\ RenderedCode(post.content)[i].element = "SyntaxHighlighter"
                       /\ RenderedCode(post.content)[i].language
                             = LanguageTag(OpeningFences(post.content, 1, FALSE)[i])
                  ELSE RenderedCode(post.content)[i].element = "code"

\* The fetchPost call of the slug now shown has ended with a post set, and
\* no other call is in flight.
VisitLoaded ==
    /\ slug # Undefined
    /\ postFetches = <<>>
    /\ postSettled.t = "settled"
    /\ postSettled.outcome = "resolved"

\* C21: posts are never cached: once the loads of a visit to a post view
\* have ended with a post, the post shown is the one built from the
\* response for the slug of that visit.
C21_PostShownFromVisitResponse ==
    VisitLoaded => post = PostServed(slug.s)

\* A fetchPost call ends in this step without a post set: fetch rejected,
\* or frontMatter threw.
EndsWithoutPost ==
    /\ Len(postFetches') < Len(postFetches)
    /\ postSettled'.t = "settled"
    /\ postSettled'.outcome # "resolved"

LinkedUrl(e) == PostUrl(e.slug.s)

\* C24: for every entry of a manifest the builder wrote, following the link
\* of the entry loads the file the entry was built from: the URL fetched is
\* that of the file the entry names, and when the load has ended the post
\* is that of this file.
C24_EntryLinkLoadsItsFile ==
    BuiltBy("generate-manifest") =>
        \A i \in 1..Len(Entries) :
            Entries[i].slug.t = "string" =>
                /\ LinkedUrl(Entries[i])
                      = resolveAsset("src/posts/" \o Entries[i].filename.s)
                /\ (/\ Entries[i].slug.s \in SlugParams
                    /\ slug = Entries[i].slug
                    /\ LoadEnded(Entries[i].slug.s))
                      => IsPostOf(Entries[i].filename.s)

(***************************************************************************)
(* Home: the recent posts.                                                 *)
(***************************************************************************)
\* C25: after a successful load the recent posts of Home are the most
\* recent entries of the manifest: min(3, number of entries) of them, all
\* entries of the manifest, the dated ones in descending order of date, and
\* no dated entry left out is later than a dated one included.
C25_RecentPostsMostRecent ==
    homeFetch = "done" =>
        /\ Len(recentPosts.a) = Min(3, Len(homeManifest.posts.a))
        /\ \A i \in 1..Len(recentPosts.a) :
              \E k \in 1..Len(homeManifest.posts.a) :
                  recentPosts.a[i] = homeManifest.posts.a[k]
        /\ \A i, j \in 1..Len(recentPosts.a) :
              (i < j /\ IsDated(recentPosts.a[i]) /\ IsDated(recentPosts.a[j]))
                  => DayOf(recentPosts.a[i]) >= DayOf(recentPosts.a[j])
        /\ \A i \in 1..Len(recentPosts.a) :
              \A k \in (Len(recentPosts.a) + 1)..Len(homeManifest.posts.a) :
                  (IsDated(recentPosts.a[i]) /\ IsDated(homeManifest.posts.a[k]))
                      => DayOf(homeManifest.posts.a[k]) <= DayOf(recentPosts.a[i])

(***************************************************************************)
(* App: the theme.                                                         *)
(***************************************************************************)
\* The state right after a page load: App is mounted with its initial
\* state and no route component holds anything.
PageLoaded ==
    /\ theme = InitialTheme
    /\ rootClassName = InitialTheme
    /\ recentPosts = Arr(<<>>)
    /\ homeFetch = "pending"
    /\ homeManifest = NoResponse
    /\ posts = Arr(<<>>)
    /\ listFetch = "idle"
    /\ listManifest = NoResponse
    /\ tag = Undefined
    /\ slug = Undefined
    /\ post = Null
    /\ postFetches = <<>>
    /\ postSettled = NoResponse

\* C26: the theme is always 'paper' or 'dark' and starts as 'paper'; two
\* toggles restore it; once App is mounted the class name of the document
\* root is the theme; and a step that changes the theme, if it is not a
\* page load, flips it to the other value, sets the class name to it and
\* changes nothing else.
C26_ThemeToggles ==
    /\ theme = "paper"
    /\ [](/\ theme \in {"paper", "dark"}
          /\ toggled(theme) \in {"paper", "dark"} \ {theme}
          /\ toggled(toggled(theme)) = theme
          /\ homeFetch # "idle" => rootClassName = theme)
    /\ [][theme' # theme =>
            \/ PageLoaded'
            \/ /\ theme' \in {"paper", "dark"} \ {theme}
               /\ rootClassName' = theme'
               /\ UNCHANGED <<listVars, homeVars, postVars>>
               /\ BuilderUnchanged]_vars

\* C26 witness: the theme was toggled to dark while the list and the recent
\* posts were loaded: the root has the class dark.
C26_Witness ==
    /\ theme = "dark"
    /\ rootClassName = "dark"
    /\ listFetch = "done"
    /\ homeFetch = "done"
    /\ Len(recentPosts.a) > 0

(***************************************************************************)
(* The list view: navigations.                                             *)
(***************************************************************************)
\* C22: every navigation to the list view fetches the manifest: a step that
\* changes the tag filter of the list shown leaves a manifest fetch of its
\* own pending.
C22_EveryListNavigationFetches ==
    [][(listFetch # "idle" /\ listFetch' # "idle" /\ tag' # tag)
          => (listFetch' = "pending" /\ posts' = Arr(<<>>))]_vars

\* The tags of the strip as the list view shows it (none when posts is not
\* an array and nothing is rendered).
Strip == IF posts.t = "Array" THEN allTags(posts.a) ELSE <<>>

\* The links of the strip shown as active (underlined, bold).
ActiveLinks == {i \in 1..Len(Strip) : tag = Strip[i]}

\* The step changes the tag the way the link of the i-th strip tag does.
FollowsLink(i) ==
    /\ ListLoaded
    /\ i \in 1..Len(Strip)
    /\ listFetch' = "done"
    /\ tag' = RouteTag(to(tag, Strip[i]))

\* C27: in the tag strip the link of the tag that is the current filter
\* leads to /blog (no filter: all posts are shown), the link of any other
\* tag t leads to /blog/tag/t (t is the filter); at most one tag is active;
\* and following a link changes neither the posts loaded, nor the manifest,
\* nor the tags of the strip.
C27_TagStripSelects ==
    /\ [](ListLoaded =>
            /\ Cardinality(ActiveLinks) <= 1
            /\ \A i \in 1..Len(Strip) :
                  IF tag = Strip[i]
                      THEN /\ to(tag, Strip[i]) = "/blog"
                           /\ RouteTag(to(tag, Strip[i])) = Undefined
                           /\ filteredPosts(posts.a, RouteTag(to(tag, Strip[i])))
                                 = posts.a
                      ELSE /\ to(tag, Strip[i]) = "/blog/tag/" \o Strip[i].s
                           /\ RouteTag(to(tag, Strip[i])) = Strip[i])
    /\ [][\A i \in 1..Len(Strip) :
            FollowsLink(i) =>
                /\ posts' = posts
                /\ listManifest' = listManifest
                /\ allTags(posts'.a) = Strip
                /\ tag' \in {Undefined, Strip[i]}
                /\ tag' # tag]_vars

\* C27 witness: the strip lists azure and devops, azure is the filter and
\* its link leads back to /blog.
C27_Witness ==
    /\ ListLoaded
    /\ tag = Str("azure")
    /\ Len(Strip) >= 2
    /\ \E i \in 1..Len(Strip) : Strip[i] = tag /\ to(tag, Strip[i]) = "/blog"
    /\ \E i \in 1..Len(Strip) : Strip[i] # tag
    /\ Len(filteredPosts(posts.a, tag)) < Len(posts.a)

(***************************************************************************)
(* The builder, run again.                                                 *)
(***************************************************************************)
\* What a run of generator which on directory d writes when the manifest
\* file is m at its start.
RunOf(which, d, m) ==
    IF which = "generate-manifest"
        THEN Written(RunSorting(d, Listing(d, m)), m)
        ELSE Written(RunCjs(d, Listing(d, m)), m)

\* C28: the builder is idempotent: once a generator has written the
\* manifest, a run of it on the unchanged directory writes the same
\* manifest again, and that is the manifest a run writes when there is no
\* manifest file at all: the file of the first run has no effect on the
\* second.
C28_BuilderIdempotent ==
    \A which \in {"generate-manifest", "generate-manifest.cjs"} :
        BuiltBy(which) =>
            /\ RunOf(which, dir, manifest) = manifest
            /\ RunOf(which, dir, Absent) = manifest

\* C28 witness: a generator has written a manifest of two entries or more,
\* and the listing the next run reads has manifest.json in it.
C28_Witness ==
    /\ BuiltBy("generate-manifest")
    /\ Len(Entries) >= 2
    /\ \E i \in 1..Len(Listing(dir, manifest)) :
          Listing(dir, manifest)[i] = ManifestName
    /\ Listing(dir, manifest) # Listing(dir, Absent)

====
